---- MODULE Spec2Model ----
(***************************************************************************)
(* Model of the Profile Browser component (src/src/App.tsx): the form      *)
(* state, the single scrape request and its response, the carousel index,  *)
(* the spreadsheet export and the rendering of an experience record.       *)
(*                                                                         *)
(* A step of the main specification is one user event as the browser       *)
(* delivers it (a disabled button delivers none, a form that fails its     *)
(* declared constraints delivers no submit event) or the settling of the   *)
(* outstanding fetch.                                                      *)
(***************************************************************************)
EXTENDS Integers, Sequences, FiniteSets, TLC

VARIABLES
    linkedinUrl,          \* useState("")           App.tsx:58
    sessionCookie,        \* useState("")           App.tsx:59
    maxProfiles,          \* useState(1)            App.tsx:60
    isRunning,            \* useState(false)        App.tsx:61
    profiles,             \* useState<Profile[]>([]) App.tsx:62
    currentProfileIndex,  \* useState(0)            App.tsx:64
    pending,              \* bodies of the fetch calls that have not settled
    notice,               \* the notice the last step showed, if any
    file,                 \* the file the last step wrote, if any
    settled,              \* the fetch outcome the last step handled, if any
    lastEvent             \* the kind of the last step

vars ==
    <<linkedinUrl, sessionCookie, maxProfiles, isRunning, profiles,
      currentProfileIndex, pending, notice, file, settled, lastEvent>>

----------------------------------------------------------------------------
(* Bounds *)

\* longest profile array a response carries
MaxList == 3

----------------------------------------------------------------------------
(* JavaScript values *)

\* the value of a missing optional field
UNDEF == "<undefined>"

\* truthiness of a string-or-undefined value, as used by `x && ...`, `x || ""`
Truthy(v) ==
    v \notin {UNDEF, ""}

\* an optional array: absent, or present with its items
NoList ==
    [present |-> FALSE, items |-> <<>>]

List(s) ==
    [present |-> TRUE, items |-> s]

\* what profiles[i] holds when the slot is undefined
Undefined ==
    [undefined |-> TRUE]

RECURSIVE Flatten(_)
Flatten(ss) ==
    IF ss = <<>> THEN <<>> ELSE Head(ss) \o Flatten(Tail(ss))

----------------------------------------------------------------------------
(* The records a response can carry *)

RoleSenior ==
    [title |-> "Senior Engineer", dateRange |-> "2021 - 2023",
     location |-> "Pune", description |-> List(<<"led team">>)]

RoleJunior ==
    [title |-> UNDEF, dateRange |-> UNDEF,
     location |-> UNDEF, description |-> NoList]

\* several roles at one company; the parent also carries flat fields
ExpRoles ==
    [company |-> "Acme", roles |-> List(<<RoleSenior, RoleJunior>>),
     title |-> "Engineer", dateRange |-> "2019 - 2023",
     location |-> "Remote", description |-> List(<<"stale">>)]

\* a single flat role
ExpFlat ==
    [company |-> "Globex", roles |-> NoList,
     title |-> "Analyst", dateRange |-> "2017 - 2019",
     location |-> UNDEF, description |-> List(<<"reports", "audits">>)]

\* roles present but empty
ExpEmptyRoles ==
    [company |-> "Initech", roles |-> List(<<>>),
     title |-> "Founder", dateRange |-> "2015",
     location |-> "Mumbai", description |-> NoList]

ProfileAnn ==
    [name |-> "Ann", profile_url |-> "https://www.linkedin.com/in/ann",
     title |-> "Engineer", location |-> "Pune",
     experiences |-> List(<<ExpRoles, ExpFlat>>),
     education |-> List(<<"IIT">>), evaluation |-> "scored"]

ProfileBob ==
    [name |-> "Bob", profile_url |-> UNDEF,
     title |-> "", location |-> UNDEF,
     experiences |-> NoList,
     education |-> NoList, evaluation |-> UNDEF]

ProfileCy ==
    [name |-> UNDEF, profile_url |-> "https://www.linkedin.com/in/cy",
     title |-> "Founder", location |-> "Mumbai",
     experiences |-> List(<<ExpEmptyRoles>>),
     education |-> List(<<>>), evaluation |-> UNDEF]

ProfilePool ==
    {ProfileAnn, ProfileBob, ProfileCy}

\* the profiles the responses are made of
ResponsePool ==
    {ProfileAnn, ProfileBob}

ProfileLists ==
    UNION {[1..n -> ResponsePool] : n \in 0..MaxList}

\* data.profile: missing, one object, or an array
ProfileFields ==
    {[kind |-> "absent", items |-> <<>>]}
    \cup {[kind |-> "object", items |-> <<p>>] : p \in ResponsePool}
    \cup {[kind |-> "array", items |-> ps] : ps \in ProfileLists}

\* data.error when the field is there: empty or a message
ErrorFields ==
    {"", "Invalid session cookie"}

\* data.profile of the payloads that also carry an error field
ErrorProfileFields ==
    {[kind |-> "absent", items |-> <<>>],
     [kind |-> "array", items |-> <<ProfileAnn, ProfileBob>>]}

\* how the fetch of one request can settle: the fetch rejects, the body is
\* not JSON, the body is JSON null, or the body is a JSON object
Outcomes ==
    {[kind |-> k, error |-> UNDEF, profile |-> [kind |-> "absent", items |-> <<>>]] :
        k \in {"reject", "badjson", "null"}}
    \cup {[kind |-> "object", error |-> UNDEF, profile |-> pf] :
            pf \in ProfileFields}
    \cup {[kind |-> "object", error |-> e, profile |-> pf] :
            e \in ErrorFields, pf \in ErrorProfileFields}

----------------------------------------------------------------------------
(* Form inputs *)

UrlInputs ==
    {"", "linkedin", "https://www.linkedin.com/search/results/people/?k=a"}

\* the texts that type="url" accepts as absolute URLs
AbsoluteUrls ==
    {"https://www.linkedin.com/search/results/people/?k=a"}

CookieInputs ==
    {"", "li_at=AQEDAT"}

\* texts typed into the count field, one character per element
CountInputs ==
    {<<>>, <<"1">>, <<"5">>, <<"6">>, <<"-">>, <<"-", "1">>}

Digits ==
    {"0", "1", "2", "3", "4", "5", "6", "7", "8", "9"}

DigitValue(c) ==
    CASE c = "0" -> 0 [] c = "1" -> 1 [] c = "2" -> 2 [] c = "3" -> 3
      [] c = "4" -> 4 [] c = "5" -> 5 [] c = "6" -> 6 [] c = "7" -> 7
      [] c = "8" -> 8 [] c = "9" -> 9

RECURSIVE DigitsValue(_)
DigitsValue(s) ==
    IF s = <<>> THEN 0
    ELSE 10 * DigitsValue(SubSeq(s, 1, Len(s) - 1)) + DigitValue(s[Len(s)])

IsNumberText(s) ==
    LET body == IF s # <<>> /\ Head(s) = "-" THEN Tail(s) ELSE s
    IN  body # <<>> /\ \A i \in 1..Len(body) : body[i] \in Digits

\* e.target.value of a type="number" input: the text if it is a number,
\* the empty string otherwise
NumberInputValue(s) ==
    IF IsNumberText(s) THEN s ELSE <<>>

\* Number(text): the empty string converts to 0
Number(s) ==
    IF s = <<>> THEN 0
    ELSE IF Head(s) = "-" THEN 0 - DigitsValue(Tail(s))
    ELSE DigitsValue(s)

----------------------------------------------------------------------------
(* Notices and files *)

NoNotice ==
    [kind |-> "none", text |-> ""]

ToastError(t) ==
    [kind |-> "error", text |-> t]

ToastSuccess(t) ==
    [kind |-> "success", text |-> t]

\* the browser's own message next to a field that fails its constraint
ValidationBubble ==
    [kind |-> "validation", text |-> "constraint"]

NoFile ==
    [written |-> FALSE, name |-> "", sheet |-> "", rows |-> <<>>]

NoOutcome ==
    [kind |-> "none", error |-> UNDEF, profile |-> [kind |-> "absent", items |-> <<>>]]

----------------------------------------------------------------------------
Init ==
    /\ linkedinUrl = ""
    /\ sessionCookie = ""
    /\ maxProfiles = 1
    /\ isRunning = FALSE
    /\ profiles = <<>>
    /\ currentProfileIndex = 0
    /\ pending = <<>>
    /\ notice = NoNotice
    /\ file = NoFile
    /\ settled = NoOutcome
    /\ lastEvent = "init"

----------------------------------------------------------------------------
(* What is on screen *)

\* const currentProfile = profiles[currentProfileIndex]
currentProfile ==
    IF currentProfileIndex + 1 \in 1..Len(profiles)
    THEN profiles[currentProfileIndex + 1]
    ELSE Undefined

\* the carousel section reads currentProfile.name: with an undefined
\* currentProfile the render throws and React unmounts the component
RenderThrows ==
    Len(profiles) > 0 /\ currentProfile = Undefined

Mounted ==
    ~RenderThrows

\* {profiles.length > 0 && ( ... )}: export button and carousel
CarouselRendered ==
    Mounted /\ Len(profiles) > 0

\* variant: the submit button is never disabled
SubmitDisabled_never ==
    FALSE

\* <button type="submit" disabled={isRunning}>
SubmitDisabled ==
    isRunning

\* <button onClick={goToPrevious} disabled={currentProfileIndex === 0}>
PreviousDisabled ==
    currentProfileIndex = 0

\* <button onClick={goToNext} disabled={currentProfileIndex === profiles.length - 1}>
NextDisabled ==
    currentProfileIndex = Len(profiles) - 1

----------------------------------------------------------------------------
(* The constraints the form declares on its fields *)

\* min="1"
MinProfiles == 1

\* max="5"
MaxProfiles == 5

\* variant: emptiness tested against undefined instead of ""
IsEmptyString_undefined(s) ==
    s = UNDEF

\* !linkedinUrl, !sessionCookie; also the test behind `required`
IsEmptyString(s) ==
    s = ""

\* required
ValueMissing(s) ==
    IsEmptyString(s)

\* type="url"
TypeMismatch(s) ==
    ~IsEmptyString(s) /\ s \notin AbsoluteUrls

\* variant: the count field declares no minimum
RangeUnderflow_noMin(n) ==
    FALSE

\* min / max of the count field, which shows maxProfiles
RangeUnderflow(n) ==
    n < MinProfiles

RangeOverflow(n) ==
    n > MaxProfiles

\* the form's constraint validation, run before a submit event is fired
CheckValidity ==
    /\ ~ValueMissing(linkedinUrl)
    /\ ~TypeMismatch(linkedinUrl)
    /\ ~ValueMissing(sessionCookie)
    /\ ~RangeUnderflow(maxProfiles)
    /\ ~RangeOverflow(maxProfiles)

----------------------------------------------------------------------------
(* Field edits *)

\* onChange={(e) => setLinkedinUrl(e.target.value)}
SetLinkedinUrl(v) ==
    /\ Mounted
    /\ linkedinUrl' = v
    /\ notice' = NoNotice
    /\ file' = NoFile
    /\ settled' = NoOutcome
    /\ lastEvent' = "editUrl"
    /\ UNCHANGED <<sessionCookie, maxProfiles, isRunning, profiles,
                   currentProfileIndex, pending>>

\* onChange={(e) => setSessionCookie(e.target.value)}
SetSessionCookie(v) ==
    /\ Mounted
    /\ sessionCookie' = v
    /\ notice' = NoNotice
    /\ file' = NoFile
    /\ settled' = NoOutcome
    /\ lastEvent' = "editCookie"
    /\ UNCHANGED <<linkedinUrl, maxProfiles, isRunning, profiles,
                   currentProfileIndex, pending>>

\* onChange={(e) => setMaxProfiles(Number(e.target.value))}
SetMaxProfiles(typed) ==
    /\ Mounted
    /\ maxProfiles' = Number(NumberInputValue(typed))
    /\ notice' = NoNotice
    /\ file' = NoFile
    /\ settled' = NoOutcome
    /\ lastEvent' = "editCount"
    /\ UNCHANGED <<linkedinUrl, sessionCookie, isRunning, profiles,
                   currentProfileIndex, pending>>

----------------------------------------------------------------------------
(* Submit search *)

\* variant: the limit sent is the default, not the field's value
RequestBody_defaultLimit ==
    [url |-> linkedinUrl, session_cookie |-> sessionCookie, limit |-> 1]

\* body: JSON.stringify({url, session_cookie, limit})
RequestBody ==
    [url |-> linkedinUrl, session_cookie |-> sessionCookie, limit |-> maxProfiles]

\* handleSubmit up to the first await
handleSubmit ==
    IF IsEmptyString(linkedinUrl) \/ IsEmptyString(sessionCookie)
    THEN /\ notice' = ToastError("Please fill in all required fields")
         /\ UNCHANGED <<isRunning, pending>>
    ELSE /\ isRunning' = TRUE
         /\ pending' = Append(pending, RequestBody)
         /\ notice' = NoNotice

\* the user presses the submit button (or Enter in the URL field)
SubmitForm ==
    /\ Mounted
    /\ ~SubmitDisabled
    /\ IF CheckValidity
       THEN handleSubmit
       ELSE /\ notice' = ValidationBubble
            /\ UNCHANGED <<isRunning, pending>>
    /\ file' = NoFile
    /\ settled' = NoOutcome
    /\ lastEvent' = "submit"
    /\ UNCHANGED <<linkedinUrl, sessionCookie, maxProfiles, profiles,
                   currentProfileIndex>>

\* fetch rejects, response.json() rejects, or data is null and data.error throws
Throws(o) ==
    o.kind \in {"reject", "badjson", "null"}

\* Array.isArray(data.profile) ? data.profile : [data.profile]
ProfileArray(pf) ==
    IF pf.kind = "array"
    THEN pf.items
    ELSE <<IF pf.kind = "absent" THEN Undefined ELSE pf.items[1]>>

RemoveAt(s, i) ==
    SubSeq(s, 1, i - 1) \o SubSeq(s, i + 1, Len(s))

\* variant: the carousel index is not reset with the new list
OnData_keepIndex(o) ==
    IF Truthy(o.error)
    THEN /\ notice' = ToastError(o.error)
         /\ UNCHANGED <<profiles, currentProfileIndex>>
    ELSE /\ profiles' = ProfileArray(o.profile)
         /\ currentProfileIndex' = currentProfileIndex
         /\ notice' = ToastSuccess("Profiles scraped successfully!")

\* variant: an error payload clears the previous results
OnData_clearOnError(o) ==
    IF Truthy(o.error)
    THEN /\ notice' = ToastError(o.error)
         /\ profiles' = <<>>
         /\ currentProfileIndex' = 0
    ELSE /\ profiles' = ProfileArray(o.profile)
         /\ currentProfileIndex' = 0
         /\ notice' = ToastSuccess("Profiles scraped successfully!")

\* try-body after the await
OnData(o) ==
    IF Truthy(o.error)
    THEN /\ notice' = ToastError(o.error)
         /\ UNCHANGED <<profiles, currentProfileIndex>>
    ELSE /\ profiles' = ProfileArray(o.profile)
         /\ currentProfileIndex' = 0
         /\ notice' = ToastSuccess("Profiles scraped successfully!")

\* variant: a failed request clears the previous results
OnThrow_clear ==
    /\ notice' = ToastError("Failed to scrape profiles")
    /\ profiles' = <<>>
    /\ currentProfileIndex' = 0

\* catch
OnThrow ==
    /\ notice' = ToastError("Failed to scrape profiles")
    /\ UNCHANGED <<profiles, currentProfileIndex>>

\* variant: the flag is not cleared when the call ends
Finally_keepRunning(i) ==
    /\ isRunning' = isRunning
    /\ pending' = RemoveAt(pending, i)

\* finally, and the end of the call
Finally(i) ==
    /\ isRunning' = FALSE
    /\ pending' = RemoveAt(pending, i)

\* the fetch of the i-th outstanding request settles with outcome o and
\* handleSubmit runs to its end
FetchSettles(i, o) ==
    /\ i \in 1..Len(pending)
    /\ IF Throws(o) THEN OnThrow ELSE OnData(o)
    /\ Finally(i)
    /\ file' = NoFile
    /\ settled' = o
    /\ lastEvent' = "settle"
    /\ UNCHANGED <<linkedinUrl, sessionCookie, maxProfiles>>

----------------------------------------------------------------------------
(* Navigate *)

\* (prevIndex) => prevIndex > 0 ? prevIndex - 1 : prevIndex
goToPrevious(prevIndex) ==
    IF prevIndex > 0 THEN prevIndex - 1 ELSE prevIndex

\* variant: goToNext written as a copy of goToPrevious
goToNext_copied(prevIndex) ==
    IF prevIndex > 0 THEN prevIndex - 1 ELSE prevIndex

\* (prevIndex) => prevIndex < profiles.length - 1 ? prevIndex + 1 : prevIndex
goToNext(prevIndex) ==
    IF prevIndex < Len(profiles) - 1 THEN prevIndex + 1 ELSE prevIndex

ClickPrevious ==
    /\ CarouselRendered
    /\ currentProfileIndex' =
          IF PreviousDisabled THEN currentProfileIndex
          ELSE goToPrevious(currentProfileIndex)
    /\ notice' = NoNotice
    /\ file' = NoFile
    /\ settled' = NoOutcome
    /\ lastEvent' = "previous"
    /\ UNCHANGED <<linkedinUrl, sessionCookie, maxProfiles, isRunning,
                   profiles, pending>>

ClickNext ==
    /\ CarouselRendered
    /\ currentProfileIndex' =
          IF NextDisabled THEN currentProfileIndex
          ELSE goToNext(currentProfileIndex)
    /\ notice' = NoNotice
    /\ file' = NoFile
    /\ settled' = NoOutcome
    /\ lastEvent' = "next"
    /\ UNCHANGED <<linkedinUrl, sessionCookie, maxProfiles, isRunning,
                   profiles, pending>>

----------------------------------------------------------------------------
(* Export *)

\* variant: the value is exported without the || "" default
OrEmpty_raw(v) ==
    v

\* x || ""
OrEmpty(v) ==
    IF Truthy(v) THEN v ELSE ""

\* one element of exportData
ExportRow(profile) ==
    [name |-> OrEmpty(profile.name),
     profile_url |-> OrEmpty(profile.profile_url),
     title |-> OrEmpty(profile.title),
     location |-> OrEmpty(profile.location)]

ExportData ==
    [i \in 1..Len(profiles) |-> ExportRow(profiles[i])]

exportToExcel ==
    /\ IF Len(profiles) = 0
       THEN /\ notice' = ToastError("No profiles to export")
            /\ file' = NoFile
       ELSE /\ file' = [written |-> TRUE, name |-> "profiles.xlsx",
                        sheet |-> "Profiles", rows |-> ExportData]
            /\ notice' = NoNotice
    /\ settled' = NoOutcome
    /\ lastEvent' = "export"
    /\ UNCHANGED <<linkedinUrl, sessionCookie, maxProfiles, isRunning,
                   profiles, currentProfileIndex, pending>>

ClickExport ==
    /\ CarouselRendered
    /\ exportToExcel

----------------------------------------------------------------------------
Next ==
    \/ \E v \in UrlInputs : SetLinkedinUrl(v)
    \/ \E v \in CookieInputs : SetSessionCookie(v)
    \/ \E t \in CountInputs : SetMaxProfiles(t)
    \/ SubmitForm
    \/ \E i \in 1..Len(pending), o \in Outcomes : FetchSettles(i, o)
    \/ ClickPrevious
    \/ ClickNext
    \/ ClickExport

Spec ==
    Init /\ [][Next]_vars

----------------------------------------------------------------------------
(* Render current profile: one experience record *)

\* the rendered elements are listed in document order, each with the field
\* it shows and its text

\* {x && <p>{x}</p>}
ShowIf(el, v) ==
    IF Truthy(v) THEN <<[el |-> el, text |-> v]>> ELSE <<>>

\* {d && d.length > 0 && <ul>{d.map(...)}</ul>}
ShowList(el, d) ==
    IF d.present /\ Len(d.items) > 0
    THEN [i \in 1..Len(d.items) |-> [el |-> el, text |-> d.items[i]]]
    ELSE <<>>

\* the body of exp.roles.map: the title paragraph is always rendered
RenderRole(role) ==
    <<[el |-> "role.title", text |-> role.title]>>
    \o ShowIf("role.dateRange", role.dateRange)
    \o ShowIf("role.location", role.location)
    \o ShowList("role.description", role.description)

\* the "Single role" branch
RenderFlat(exp) ==
    ShowIf("title", exp.title)
    \o ShowIf("dateRange", exp.dateRange)
    \o ShowIf("location", exp.location)
    \o ShowList("description", exp.description)

\* variant: the flat fields of the record are rendered in both branches
RenderExperience_both(exp) ==
    <<[el |-> "company", text |-> exp.company]>>
    \o (IF exp.roles.present
        THEN Flatten([i \in 1..Len(exp.roles.items) |->
                        RenderRole(exp.roles.items[i])])
        ELSE <<>>)
    \o RenderFlat(exp)

\* the body of currentProfile.experiences.map: {exp.roles ? ( ... ) : ( ... )}
RenderExperience(exp) ==
    <<[el |-> "company", text |-> exp.company]>>
    \o (IF exp.roles.present
        THEN Flatten([i \in 1..Len(exp.roles.items) |->
                        RenderRole(exp.roles.items[i])])
        ELSE RenderFlat(exp))

\* {currentProfile.experiences && currentProfile.experiences.length > 0 && ...}
ExperienceSection ==
    IF CarouselRendered /\ currentProfile.experiences.present
    THEN [i \in 1..Len(currentProfile.experiences.items) |->
            RenderExperience(currentProfile.experiences.items[i])]
    ELSE <<>>

----------------------------------------------------------------------------
(* exportToExcel on its own: any profile list, the empty one included *)

\* longest profile list handed to exportToExcel
MaxExport == 3

ExportLists ==
    UNION {[1..n -> ProfilePool] : n \in 0..MaxExport}

InitExport ==
    /\ linkedinUrl = ""
    /\ sessionCookie = ""
    /\ maxProfiles = 1
    /\ isRunning = FALSE
    /\ profiles \in ExportLists
    /\ currentProfileIndex \in 0..(IF profiles = <<>> THEN 0 ELSE Len(profiles) - 1)
    /\ pending = <<>>
    /\ notice = NoNotice
    /\ file = NoFile
    /\ settled = NoOutcome
    /\ lastEvent = "init"

NextExport ==
    exportToExcel

ExportSpec ==
    InitExport /\ [][NextExport]_vars

----------------------------------------------------------------------------
(* Rendering on its own: experience records of every shape *)

RoleLists ==
    {NoList, List(<<>>), List(<<RoleSenior>>), List(<<RoleJunior, RoleSenior>>)}

ExperienceRecords ==
    {[company |-> "Acme", roles |-> r, title |-> t, dateRange |-> d,
      location |-> l, description |-> ds] :
        r \in RoleLists, t \in {UNDEF, "", "Engineer"},
        d \in {UNDEF, "2019 - 2023"}, l \in {UNDEF, "Remote"},
        ds \in {NoList, List(<<>>), List(<<"shipped", "hired">>)}}

WithExperience(exp) ==
    [name |-> "Dee", profile_url |-> UNDEF, title |-> UNDEF, location |-> UNDEF,
     experiences |-> List(<<exp>>), education |-> NoList, evaluation |-> UNDEF]

InitRender ==
    /\ linkedinUrl = ""
    /\ sessionCookie = ""
    /\ maxProfiles = 1
    /\ isRunning = FALSE
    /\ \E e1 \in ExperienceRecords, e2 \in {ExpRoles, ExpFlat, ExpEmptyRoles} :
          profiles = <<WithExperience(e1), WithExperience(e2)>>
    /\ currentProfileIndex = 0
    /\ pending = <<>>
    /\ notice = NoNotice
    /\ file = NoFile
    /\ settled = NoOutcome
    /\ lastEvent = "init"

NextRender ==
    \/ ClickPrevious
    \/ ClickNext

RenderSpec ==
    InitRender /\ [][NextRender]_vars

----------------------------------------------------------------------------
(* Properties *)

EditEvents ==
    {"editUrl", "editCookie", "editCount"}

FormUnchanged ==
    UNCHANGED <<linkedinUrl, sessionCookie, maxProfiles>>

ResultsUnchanged ==
    UNCHANGED <<profiles, currentProfileIndex>>

\* C1: in every reachable state at most one scrape request is outstanding,
\* and while one is outstanding the submit button is disabled, so no user
\* event can start a second one.
C1_SingleFlight ==
    /\ Len(pending) <= 1
    /\ pending # <<>> => isRunning

\* a request is outstanding and the user has just exported the earlier results
C1_Witness ==
    /\ Len(pending) = 1
    /\ lastEvent = "export"
    /\ file.written

\* C2: a submit with an empty search URL or an empty session cookie issues no
\* request and shows a validation notice; the in-flight flag stays false and
\* the profile list and the carousel index are unchanged.
C2_EmptyFieldsBlocked ==
    [][(lastEvent' = "submit" /\ (linkedinUrl = "" \/ sessionCookie = ""))
         => /\ pending' = pending
            /\ pending' = <<>>
            /\ notice'.kind \in {"error", "validation"}
            /\ isRunning' = FALSE
            /\ ResultsUnchanged]_vars

\* a submit with the cookie empty was blocked while earlier results are shown
C2_Witness ==
    /\ lastEvent = "submit"
    /\ linkedinUrl \in AbsoluteUrls
    /\ sessionCookie = ""
    /\ notice # NoNotice
    /\ pending = <<>>
    /\ Len(profiles) > 0

SuccessPayload(o) ==
    o.kind = "object" /\ o.error = UNDEF

\* C3: a response whose payload has no error field replaces the profile list
\* by the payload's profiles and resets the carousel index to 0: an array of
\* N profiles gives the same N entries in the same order, a single object
\* gives a one-element list.
C3_SuccessReplaces ==
    [][(lastEvent' = "settle" /\ SuccessPayload(settled'))
         => /\ currentProfileIndex' = 0
            /\ settled'.profile.kind = "array"
                 => /\ Len(profiles') = Len(settled'.profile.items)
                    /\ profiles' = settled'.profile.items
            /\ settled'.profile.kind = "object"
                 => /\ Len(profiles') = 1
                    /\ profiles'[1] = settled'.profile.items[1]]_vars

\* an array of at least two profiles has just replaced the list
C3_Witness ==
    /\ lastEvent = "settle"
    /\ SuccessPayload(settled)
    /\ settled.profile.kind = "array"
    /\ Len(settled.profile.items) >= 2
    /\ profiles = settled.profile.items
    /\ currentProfileIndex = 0

\* C4 as stated: a payload that carries an error field surfaces it as a
\* notice, leaves the profile list and the carousel index as they were and
\* shows no success notice.
C4_AnyErrorField ==
    [][(lastEvent' = "settle" /\ settled'.kind = "object"
          /\ settled'.error # UNDEF)
         => /\ notice' = ToastError(settled'.error)
            /\ notice'.kind # "success"
            /\ ResultsUnchanged]_vars

\* C4, amended: a payload whose error field is a non-empty string surfaces
\* that error as a notice, leaves the profile list and the carousel index as
\* they were immediately before the response and shows no success notice.
C4_TruthyErrorField ==
    [][(lastEvent' = "settle" /\ settled'.kind = "object"
          /\ settled'.error \notin {UNDEF, ""})
         => /\ notice' = ToastError(settled'.error)
            /\ notice'.kind # "success"
            /\ ResultsUnchanged]_vars

\* an error payload arrived while the second profile of earlier results is shown
C4_Witness ==
    /\ lastEvent = "settle"
    /\ settled.kind = "object"
    /\ settled.error = "Invalid session cookie"
    /\ notice = ToastError("Invalid session cookie")
    /\ Len(profiles) >= 2
    /\ currentProfileIndex = 1

\* C5: a rejected fetch or an unparsable body shows the generic failure
\* notice, leaves the profile list and the carousel index unchanged and is
\* not retried: the request is gone, and only a submit adds a request.
C5_FailureNoRetry ==
    [][/\ (lastEvent' = "settle" /\ settled'.kind \in {"reject", "badjson"})
            => /\ notice' = ToastError("Failed to scrape profiles")
               /\ ResultsUnchanged
               /\ Len(pending') = Len(pending) - 1
               /\ pending' = <<>>
       /\ Len(pending') > Len(pending) => lastEvent' = "submit"]_vars

\* an unparsable body arrived while earlier results are shown
C5_Witness ==
    /\ lastEvent = "settle"
    /\ settled.kind = "badjson"
    /\ notice = ToastError("Failed to scrape profiles")
    /\ pending = <<>>
    /\ Len(profiles) >= 2
    /\ currentProfileIndex = 1

\* C6: on a list of N profiles 'previous' at index 0 and 'next' at index N-1
\* change nothing; anywhere else 'previous' lowers and 'next' raises the index
\* by exactly one. The index never wraps, and navigation changes neither the
\* profile list, nor the form inputs, nor the in-flight flag.
C6_Navigate ==
    [][/\ lastEvent' = "previous"
            => currentProfileIndex' =
                 IF currentProfileIndex = 0 THEN 0 ELSE currentProfileIndex - 1
       /\ lastEvent' = "next"
            => currentProfileIndex' =
                 IF currentProfileIndex = Len(profiles) - 1
                 THEN currentProfileIndex ELSE currentProfileIndex + 1
       /\ lastEvent' \in {"previous", "next"}
            => /\ currentProfileIndex' \in 0..(Len(profiles) - 1)
               /\ FormUnchanged
               /\ UNCHANGED <<profiles, isRunning, pending>>]_vars

\* 'previous' was pressed on a list of three or more and the second profile
\* is shown, while a request is in flight
C6_Witness ==
    /\ lastEvent = "previous"
    /\ Len(profiles) >= 3
    /\ currentProfileIndex = 1
    /\ isRunning

\* C7: every request that is sent carries a limit that is an integer between
\* 1 and 5, whatever was typed into the count field; a submit with the count
\* outside 1..5 sends nothing and shows a notice.
C7_LimitInRange ==
    [][/\ \A i \in 1..Len(pending') : pending'[i].limit \in 1..5
       /\ (lastEvent' = "submit" /\ maxProfiles \notin 1..5)
            => /\ pending' = pending
               /\ notice'.kind \in {"error", "validation"}]_vars

\* the count field was cleared (Number("") = 0) and the submit, with URL and
\* cookie filled in, was blocked with a notice
C7_Witness ==
    /\ lastEvent = "submit"
    /\ maxProfiles = 0
    /\ linkedinUrl \in AbsoluteUrls
    /\ sessionCookie # ""
    /\ notice # NoNotice
    /\ pending = <<>>

\* C8 as stated: each submit with a non-empty URL and a non-empty cookie
\* issues exactly one request, whose body holds the form values of that
\* moment; edits while it is in flight neither alter it nor issue another.
C8_NonEmptySends ==
    [][/\ (lastEvent' = "submit" /\ linkedinUrl # "" /\ sessionCookie # "")
            => /\ Len(pending') = 1
               /\ pending' = <<[url |-> linkedinUrl,
                                session_cookie |-> sessionCookie,
                                limit |-> maxProfiles]>>
       /\ lastEvent' \in EditEvents => pending' = pending]_vars

\* C8, amended: each submit of a form that passes its constraints (the URL an
\* absolute URL, the cookie non-empty, the count within 1..5) issues exactly
\* one request, whose body holds the form values of that moment, the cookie
\* verbatim; edits while it is in flight neither alter it nor issue another.
C8_ValidFormSends ==
    [][/\ (lastEvent' = "submit" /\ linkedinUrl \in AbsoluteUrls
             /\ sessionCookie # "" /\ maxProfiles \in 1..5)
            => /\ Len(pending') = 1
               /\ pending' = <<[url |-> linkedinUrl,
                                session_cookie |-> sessionCookie,
                                limit |-> maxProfiles]>>
       /\ lastEvent' \in EditEvents => pending' = pending]_vars

\* a request sent with limit 5 is in flight and the cookie and the count
\* fields have since been changed
C8_Witness ==
    /\ Len(pending) = 1
    /\ lastEvent \in EditEvents
    /\ pending[1].limit = 5
    /\ maxProfiles # 5
    /\ pending[1].session_cookie # sessionCookie

ExportColumns ==
    {"name", "profile_url", "title", "location"}

\* C9: export writes a file exactly when the profile list is non-empty; with
\* no profiles it shows a notice; otherwise the file has one row per profile,
\* in list order, with exactly the columns name, profile_url, title and
\* location, a missing value as the empty string. Export leaves the profile
\* list and the carousel index unchanged.
C9_Export ==
    [][lastEvent' = "export"
         => /\ file'.written <=> Len(profiles) > 0
            /\ Len(profiles) = 0 => notice'.kind = "error"
            /\ Len(profiles) > 0
                 => /\ Len(file'.rows) = Len(profiles)
                    /\ \A i \in 1..Len(profiles) :
                          /\ DOMAIN file'.rows[i] = ExportColumns
                          /\ \A c \in ExportColumns :
                                file'.rows[i][c] =
                                  IF profiles[i][c] = UNDEF THEN ""
                                  ELSE profiles[i][c]
            /\ ResultsUnchanged]_vars

\* a list of several profiles, one without profile_url, has been exported
C9_Witness ==
    /\ lastEvent = "export"
    /\ file.written
    /\ Len(profiles) >= 2
    /\ Len(file.rows) = Len(profiles)
    /\ \E i \in 1..Len(profiles) :
          profiles[i].profile_url = UNDEF /\ file.rows[i].profile_url = ""

RoleElements ==
    {"role.title", "role.dateRange", "role.location", "role.description"}

FlatElements ==
    {"title", "dateRange", "location", "description"}

IsRoleElement(e) ==
    e.el \in RoleElements

IsFlatElement(e) ==
    e.el \in FlatElements

IsRoleTitle(e) ==
    e.el = "role.title"

\* C10: for every experience record of the profile on screen: with a non-empty
\* roles list each role is rendered, in order, and no flat field of the parent
\* record is; with roles absent the record's own flat fields are rendered and
\* no role entry is; no record, one with an empty roles list included, shows
\* both.
C10_ExperienceBranches ==
    \A i \in 1..Len(ExperienceSection) :
        LET exp == currentProfile.experiences.items[i]
            out == ExperienceSection[i]
            roleEls == SelectSeq(out, IsRoleElement)
            flatEls == SelectSeq(out, IsFlatElement)
            titles == SelectSeq(out, IsRoleTitle)
        IN  /\ (exp.roles.present /\ Len(exp.roles.items) > 0)
                 => /\ flatEls = <<>>
                    /\ Len(titles) = Len(exp.roles.items)
                    /\ \A j \in 1..Len(titles) :
                          titles[j].text = exp.roles.items[j].title
                    /\ \A j \in 1..Len(exp.roles.items) :
                          \A f \in {"dateRange", "location"} :
                             Truthy(exp.roles.items[j][f])
                               => \E k \in 1..Len(roleEls) :
                                     /\ roleEls[k].el = "role." \o f
                                     /\ roleEls[k].text = exp.roles.items[j][f]
            /\ ~exp.roles.present
                 => /\ roleEls = <<>>
                    /\ \A f \in {"title", "dateRange", "location"} :
                          /\ Truthy(exp[f])
                               <=> \E k \in 1..Len(flatEls) :
                                      flatEls[k] = [el |-> f, text |-> exp[f]]
                    /\ (exp.description.present /\ exp.description.items # <<>>)
                          <=> \E k \in 1..Len(flatEls) :
                                 flatEls[k].el = "description"
            /\ roleEls = <<>> \/ flatEls = <<>>

\* the profile on screen has a record with two roles and a flat title of its
\* own, and only the roles are rendered
C10_Witness ==
    /\ lastEvent = "next"
    /\ Len(ExperienceSection) = 1
    /\ LET exp == currentProfile.experiences.items[1]
       IN  /\ exp.roles.present
           /\ Len(exp.roles.items) = 2
           /\ Truthy(exp.title)
           /\ Len(SelectSeq(ExperienceSection[1], IsRoleTitle)) = 2
           /\ SelectSeq(ExperienceSection[1], IsFlatElement) = <<>>

\* C11: whenever the profile list is non-empty (the carousel is rendered) the
\* carousel index lies in 0..length-1 and the profile at that index is a
\* defined record, so the position shown, index+1 of length, lies in
\* 1..length; also after a response with a shorter list or with no profile
\* field.
C11_CarouselInvariant ==
    Len(profiles) > 0
      => /\ currentProfileIndex \in 0..(Len(profiles) - 1)
         /\ currentProfileIndex + 1 \in 1..Len(profiles)
         /\ profiles[currentProfileIndex + 1] # Undefined

\* C12: the in-flight flag is true exactly while a request is outstanding: a
\* submit that sends a request sets it, every completion (success payload,
\* error payload, rejection or unparsable body) clears it, and while it is
\* true nothing but a completion changes it and no request is added, so it
\* stays true, and submit disabled, for as long as the response does not
\* arrive.
C12_FlagTracksRequest ==
    [][/\ isRunning <=> pending # <<>>
       /\ isRunning' <=> pending' # <<>>
       /\ Len(pending') > Len(pending) => (~isRunning /\ isRunning')
       /\ lastEvent' = "settle"
            => (isRunning /\ ~isRunning' /\ ~SubmitDisabled')
       /\ (isRunning /\ lastEvent' # "settle")
            => (isRunning' /\ SubmitDisabled' /\ pending' = pending)]_vars

\* a request has completed with the JSON body null and the flag is cleared
C12_Witness ==
    /\ lastEvent = "settle"
    /\ settled.kind = "null"
    /\ ~isRunning
    /\ pending = <<>>
    /\ linkedinUrl \in AbsoluteUrls
    /\ sessionCookie # ""

====
